---- MODULE Spec2Model ----
(***************************************************************************)
(* The Playwright e2e builder of playwright-ng-schematics: the argument    *)
(* translator (buildArgs), the dev server controller (startDevServer),     *)
(* the process runner (startPlaywrightTest) and the orchestrator (runE2E). *)
(*                                                                         *)
(* Strings are sequences of one-character strings, so that key.length,     *)
(* strings.dasherize and String(value) are computed, not assumed.          *)
(* JavaScript values are records tagged with their type.                   *)
(***************************************************************************)
EXTENDS Integers, Sequences, FiniteSets

VARIABLES
  options,     \* the options object the host passes (shared by reference, mutable)
  options0,    \* history: the options mapping as the host built it
  argv,        \* history: the argument list returned by each buildArgs call, in order
  pc,          \* position of the runE2E invocation
  server,      \* runE2E's local `server`: "undefined" or "handle"
  baseURL,     \* runE2E's local `baseURL` (a JavaScript value)
  result,      \* what the runE2E promise settled with: "none", "true", "false", "error"
  overrides,   \* history: the overrides mapping given to context.scheduleTarget
  runner,      \* history: what spawn() was given, or NoRunner
  exitCode,    \* history: the argument of the child's 'exit' event, or NoExit
  ambient,     \* process.env.PLAYWRIGHT_TEST_BASE_URL of the host process
  unhandled,   \* number of rejected promises nobody awaits
  log,         \* history: the externally visible events, in program order
  marker,      \* process.env.npm_config_user_agent of the host process
  execCmd,     \* history: what each copy of getPackageManagerExecCommand returned
  tree,        \* the schematic's virtual file tree (ng-add)
  tree0,       \* history: the tree before the latest ng-add run
  added,       \* history: the ng-add runs so far and what the last one did
  parked,      \* the locals of the runE2E invocation that is not running now
  shared       \* the host gave both invocations one and the same options object

runVars == <<options, options0, argv, pc, server, baseURL, result, overrides,
             runner, exitCode, ambient, unhandled, log>>
pkgVars == <<marker, execCmd>>
addVars == <<tree, tree0, added>>
twoVars == <<parked, shared>>
vars == <<options, options0, argv, pc, server, baseURL, result, overrides,
          runner, exitCode, ambient, unhandled, log, marker, execCmd,
          tree, tree0, added, parked, shared>>

(***************************************************************************)
(* Bounds of the model.                                                    *)
(***************************************************************************)
MaxKeys == 3       \* most keys of an options mapping given to buildArgs alone
MaxRunKeys == 2    \* most keys of an options mapping given to runE2E
MaxCalls == 2      \* most buildArgs calls on one options object (SpecArgs)
MaxParts == 3      \* most pieces of a package-manager marker string (SpecPkg)
\* references a project's tsconfig.json starts with, at most
MaxRefs == 2
\* devDependencies a project's package.json starts with, at most
MaxDeps == 2
\* successive ng-add runs on one tree, at most
MaxRuns == 2

(***************************************************************************)
(* JavaScript values.                                                      *)
(***************************************************************************)
\* Every value carries all four payload fields; only the one of its tag counts.
Val(tag, b, n, str, a) == [t |-> tag, b |-> b, n |-> n, s |-> str, a |-> a]
NULL == Val("null", FALSE, 0, <<>>, <<>>)
UNDEFINED == Val("undefined", FALSE, 0, <<>>, <<>>)
Bool(b) == Val("boolean", b, 0, <<>>, <<>>)
Num(n) == Val("number", FALSE, n, <<>>, <<>>)
Str(str) == Val("string", FALSE, 0, str, <<>>)
Arr(a) == Val("array", FALSE, 0, <<>>, a)
Obj == Val("plainobject", FALSE, 0, <<>>, <<>>)

\* typeof value
TypeOf(val) ==
  IF val.t \in {"null", "array", "plainobject"} THEN "object" ELSE val.t

\* ToBoolean(value), as `if (value)` and `a || b` evaluate it
Truthy(val) ==
  CASE val.t \in {"null", "undefined"} -> FALSE
    [] val.t = "boolean" -> val.b
    [] val.t = "number" -> val.n # 0
    [] val.t = "string" -> val.s # <<>>
    [] OTHER -> TRUE

\* a ?? b
Coalesce(a, b) == IF a.t \in {"null", "undefined"} THEN b ELSE a

(***************************************************************************)
(* Characters and strings.                                                 *)
(***************************************************************************)
LowerSeq == <<"a","b","c","d","e","f","g","h","i","j","k","l","m",
              "n","o","p","q","r","s","t","u","v","w","x","y","z">>
UpperSeq == <<"A","B","C","D","E","F","G","H","I","J","K","L","M",
              "N","O","P","Q","R","S","T","U","V","W","X","Y","Z">>
DigitSeq == <<"0","1","2","3","4","5","6","7","8","9">>

IsUpper(c) == \E i \in DOMAIN UpperSeq : UpperSeq[i] = c
IsLowerOrDigit(c) ==
  \/ \E i \in DOMAIN LowerSeq : LowerSeq[i] = c
  \/ \E i \in DOMAIN DigitSeq : DigitSeq[i] = c
ToLowerCase(c) ==
  IF IsUpper(c) THEN LowerSeq[CHOOSE i \in DOMAIN UpperSeq : UpperSeq[i] = c] ELSE c

\* str.replace(/([a-z\d])([A-Z])/g, '$1_$2') of decamelize
RECURSIVE Underscore(_)
Underscore(s) ==
  IF Len(s) < 2 THEN s
  ELSE IF IsLowerOrDigit(s[1]) /\ IsUpper(s[2])
       THEN <<s[1], "_", s[2]>> \o Underscore(SubSeq(s, 3, Len(s)))
       ELSE <<s[1]>> \o Underscore(Tail(s))

\* strings.dasherize(str) = decamelize(str).replace(/[ _]/g, '-'),
\* decamelize(str) = str.replace(...).toLowerCase()
Dasherize(s) ==
  LET u == Underscore(s)
  IN [i \in DOMAIN u |->
        IF u[i] \in {" ", "_"} THEN "-" ELSE ToLowerCase(u[i])]

\* String(n) for an integer n
RECURSIVE DigitsOf(_)
DigitsOf(n) ==
  IF n < 10 THEN <<DigitSeq[n + 1]>>
  ELSE DigitsOf(n \div 10) \o <<DigitSeq[(n % 10) + 1]>>

NumberToString(n) == IF n < 0 THEN <<"-">> \o DigitsOf(0 - n) ELSE DigitsOf(n)

\* String(value) for the values that reach buildArgs' last return
StringOf(val) ==
  CASE val.t = "string" -> val.s
    [] val.t = "number" -> NumberToString(val.n)
    [] val.t = "boolean" -> IF val.b THEN <<"t","r","u","e">> ELSE <<"f","a","l","s","e">>
    [] val.t = "null" -> <<"n","u","l","l">>
    [] OTHER -> <<"u","n","d","e","f","i","n","e","d">>

(***************************************************************************)
(* Option objects: a sequence of entries, in Object.entries order.  Keys   *)
(* are identifiers (no integer-like keys, which JavaScript would reorder). *)
(***************************************************************************)
HasKey(o, k) == \E i \in DOMAIN o : o[i].k = k
Get(o, k) ==
  IF HasKey(o, k) THEN o[CHOOSE i \in DOMAIN o : o[i].k = k].v ELSE UNDEFINED
\* o[k] = val: an existing key keeps its place, a new key goes last
Put(o, k, val) ==
  IF HasKey(o, k)
  THEN [i \in DOMAIN o |-> IF o[i].k = k THEN [k |-> k, v |-> val] ELSE o[i]]
  ELSE Append(o, [k |-> k, v |-> val])

kFiles == <<"f","i","l","e","s">>
kDevServerTarget == <<"d","e","v","S","e","r","v","e","r","T","a","r","g","e","t">>
kPort == <<"p","o","r","t">>
kHeaded == <<"h","e","a","d","e","d">>
kWorkers == <<"w","o","r","k","e","r","s">>
kUiPort == <<"u","i","P","o","r","t">>
kX == <<"x">>
kGrep == <<"g","r","e","p">>

fA == <<"a",".","t","s">>
fB == <<"b",".","t","s">>
sY == <<"y">>
tServe == <<"a","p","p",":","s","e","r","v","e">>   \* "app:serve"
tBad == <<"a","p","p">>                             \* no target part
sUrl == <<"h","t","t","p",":","/","/","h","/">>
sAmbientUrl == <<"h","t","t","p",":","/","/","e","/">>

Keys == {kFiles, kDevServerTarget, kPort, kHeaded, kWorkers, kUiPort, kX, kGrep}

\* The values the host may give each key (PlaywrightBuilderOptions and the
\* builder's JSON schema: files is an array of strings or null).
ValuesOf(k) ==
  CASE k = kFiles -> {NULL, Arr(<<>>), Arr(<<fA>>), Arr(<<fB, fA>>)}
    [] k = kDevServerTarget -> {NULL, Str(<<>>), Str(tServe), Str(tBad)}
    [] k = kPort -> {NULL, Num(4200)}
    [] k = kHeaded -> {Bool(TRUE), Bool(FALSE)}
    [] k = kWorkers -> {Num(0), Num(2)}
    [] k = kUiPort -> {Num(10)}
    [] k = kX -> {Str(sY), Str(<<>>)}
    [] OTHER -> {NULL, UNDEFINED, Obj, Arr(<<fA>>)}

Entries == UNION {{[k |-> k, v |-> val] : val \in ValuesOf(k)} : k \in Keys}

\* every options mapping of at most n keys, in every key order
OptionsUpTo(n) ==
  {o \in UNION {[1..m -> Entries] : m \in 0..n} :
     \A i, j \in DOMAIN o : i # j => o[i].k # o[j].k}

(***************************************************************************)
(* buildArgs (Argument Translator).                                        *)
(***************************************************************************)
\* ArgFor with the value tested by truthiness: `if (!value) return []`
ArgForByTruthiness(key, value) ==
  IF key = kDevServerTarget THEN <<>>
  ELSE IF key = kPort THEN <<>>
  ELSE IF \/ TypeOf(value) = "object"
          \/ ~Truthy(value) THEN <<>>
  ELSE LET dashes == IF Len(key) = 1 THEN <<"-">> ELSE <<"-", "-">>
           argument == dashes \o Dasherize(key)
       IN IF TypeOf(value) = "boolean"
          THEN <<argument>>
          ELSE <<argument, StringOf(value)>>

\* ArgFor with the skip of `port` forgotten
ArgForPortNotSkipped(key, value) ==
  IF key = kDevServerTarget THEN <<>>
  ELSE IF \/ TypeOf(value) = "object"
          \/ value.t = "array"
          \/ value.t = "null"
          \/ value.t = "undefined" THEN <<>>
  ELSE LET dashes == IF Len(key) = 1 THEN <<"-">> ELSE <<"-", "-">>
           argument == dashes \o Dasherize(key)
       IN IF TypeOf(value) = "boolean"
          THEN IF value.b THEN <<argument>> ELSE <<>>
          ELSE <<argument, StringOf(value)>>

\* the callback of flatMap: the tokens one entry contributes
ArgFor(key, value) ==
  IF key = kDevServerTarget THEN <<>>
  ELSE IF key = kPort THEN <<>>
  ELSE IF \/ TypeOf(value) = "object"
          \/ value.t = "array"
          \/ value.t = "null"
          \/ value.t = "undefined" THEN <<>>
  ELSE LET dashes == IF Len(key) = 1 THEN <<"-">> ELSE <<"-", "-">>
           argument == dashes \o Dasherize(key)
       IN IF TypeOf(value) = "boolean"
          THEN IF value.b THEN <<argument>> ELSE <<>>
          ELSE <<argument, StringOf(value)>>

\* Object.entries(o).flatMap(callback)
RECURSIVE FlatMapArgs(_)
FlatMapArgs(o) ==
  IF o = <<>> THEN <<>>
  ELSE ArgFor(o[1].k, o[1].v) \o FlatMapArgs(Tail(o))

\* options.files = null
NullFiles(o) == Put(o, kFiles, NULL)

\* buildArgs(options): the returned list and the options object afterwards
BuildArgs(o) ==
  LET filesArgs == Coalesce(Get(o, kFiles), Arr(<<>>))
      after == NullFiles(o)
  IN [args |-> filesArgs.a \o FlatMapArgs(after), options |-> after]

(***************************************************************************)
(* startDevServer (Dev Server Controller).                                 *)
(***************************************************************************)
\* targetFromTargetString(str) accepts "project:target[:configuration]" and
\* throws on a string with no ':' separator
ValidTargetString(s) == \E i \in DOMAIN s : s[i] = ":"

\* const overrides = port !== null ? { port } : {}
OverridesFor(port) ==
  IF port # NULL THEN <<[k |-> kPort, v |-> port]>> ELSE <<>>

NoOverrides == <<[k |-> <<"n","o","n","e">>, v |-> UNDEFINED]>>

(***************************************************************************)
(* getPackageManagerExecCommand, in the builder and in install-browsers.   *)
(***************************************************************************)
cYarn == <<"y","a","r","n">>
cPnpm == <<"p","n","p","m">>
cPnpmExec == <<"p","n","p","m"," ","e","x","e","c">>
cNpx == <<"n","p","x">>
cPlaywrightTest == <<" ","p","l","a","y","w","r","i","g","h","t"," ","t","e","s","t">>
cPlaywrightInstall ==
  <<" ","p","l","a","y","w","r","i","g","h","t"," ","i","n","s","t","a","l","l">>

\* str.includes(sub)
RECURSIVE Includes(_, _)
Includes(str, sub) ==
  IF Len(str) < Len(sub) THEN FALSE
  ELSE IF SubSeq(str, 1, Len(sub)) = sub THEN TRUE
  ELSE Includes(Tail(str), sub)

\* GetPackageManagerExecCommand with the pnpm test before the yarn test
GetPackageManagerExecCommandPnpmFirst(ua) ==
  LET env == IF Truthy(ua) THEN ua.s ELSE <<>>
  IN IF Includes(env, cPnpm) THEN cPnpmExec
     ELSE IF Includes(env, cYarn) THEN cYarn
     ELSE cNpx

\* getPackageManagerExecCommand() of the builder; ua is
\* process.env.npm_config_user_agent
GetPackageManagerExecCommand(ua) ==
  LET env == IF Truthy(ua) THEN ua.s ELSE <<>>
  IN IF Includes(env, cYarn) THEN cYarn
     ELSE IF Includes(env, cPnpm) THEN cPnpmExec
     ELSE cNpx

\* getPackageManagerExecCommand() of the install-browsers schematic
InstallBrowsersExecCommand(ua) ==
  LET env == IF Truthy(ua) THEN ua.s ELSE <<>>
  IN IF Includes(env, cYarn) THEN cYarn
     ELSE IF Includes(env, cPnpm) THEN cPnpmExec
     ELSE cNpx

\* the pieces user-agent strings are made of in the model
MarkerPieces ==
  {<<"y","a","r","n">>, <<"p","n","p","m">>, <<"n","p","m","/">>,
   <<"y","a">>, <<"r","n"," ">>, <<"/","1"," ">>}
RECURSIVE Concat(_)
Concat(parts) == IF parts = <<>> THEN <<>> ELSE parts[1] \o Concat(Tail(parts))
\* npm_config_user_agent: unset, or a string of at most n pieces
Markers(n) ==
  {UNDEFINED} \cup
  {Str(Concat(parts)) : parts \in UNION {[1..m -> MarkerPieces] : m \in 0..n}}

NoExecCmd == [builder |-> <<>>, install |-> <<>>, installCommand |-> <<>>]

(***************************************************************************)
(* The state of the ng-add schematic before any run.                       *)
(***************************************************************************)
\* paths, as the code and the tests write them
pTsconfigJson == <<"/","t","s","c","o","n","f","i","g",".","j","s","o","n">>
pPackageJson == <<"/","p","a","c","k","a","g","e",".","j","s","o","n">>
pAngularJson == <<"/","a","n","g","u","l","a","r",".","j","s","o","n">>
pGitignore == <<"/",".","g","i","t","i","g","n","o","r","e">>
pOldTsconfig == <<"/","e","2","e","/","t","s","c","o","n","f","i","g",".","j","s","o","n">>
pRootTsconfigE2e == <<"/","t","s","c","o","n","f","i","g",".","e","2","e",".","j","s","o","n">>
pPlaywrightConfig == <<"/","p","l","a","y","w","r","i","g","h","t",".","c","o","n","f","i","g",".","t","s">>
pExampleSpec == <<"/","e","2","e","/","e","x","a","m","p","l","e",".","s","p","e","c",".","t","s">>
sTsconfigE2eSuffix == <<"t","s","c","o","n","f","i","g",".","e","2","e",".","j","s","o","n">>
\* reference paths of tsconfig.json
rE2e == <<".","/","t","s","c","o","n","f","i","g",".","e","2","e",".","j","s","o","n">>
rApp == <<".","/","t","s","c","o","n","f","i","g",".","a","p","p",".","j","s","o","n">>
\* package names and versions
pkgPlaywright == <<"@","p","l","a","y","w","r","i","g","h","t","/","t","e","s","t">>
pkgTypesNode == <<"@","t","y","p","e","s","/","n","o","d","e">>
pkgTypescript == <<"t","y","p","e","s","c","r","i","p","t">>
sLatest == <<"l","a","t","e","s","t">>
sFetched == <<"1",".","2",".","3">>
sCaret == <<"^","1",".","0",".","0">>
sTilde == <<"~","5",".","0",".","0">>
sNgE2e == <<"n","g"," ","e","2","e">>
sOtherE2e == <<"c","y","p","r","e","s","s"," ","r","u","n">>

\* the tree normalises every path to an absolute one
Normalize(path) ==
  IF path # <<>> /\ path[1] = "/" THEN path ELSE <<"/">> \o path
\* tree.exists(path)
Exists(t, path) == Normalize(path) \in t.files
\* str.endsWith(suffix)
EndsWith(str, suffix) ==
  /\ Len(suffix) <= Len(str)
  /\ SubSeq(str, Len(str) - Len(suffix) + 1, Len(str)) = suffix

\* the tree before any run, and the record of a run before any run
NoTree ==
  [files |-> {}, hasRefs |-> FALSE, refs |-> <<>>, hasDevDeps |-> FALSE,
   devDeps |-> <<>>, e2eScript |-> UNDEFINED, angularE2e |-> FALSE,
   gitignoreBlocks |-> 0]
\* a registry answer: fetch rejected, or a body with or without dist-tags
\* and dist-tags.latest
Registry(ok, distTags, latest) ==
  [ok |-> ok, distTags |-> distTags, latest |-> latest]
RegistryRejects == Registry(FALSE, FALSE, UNDEFINED)
RegistryNoDistTags == Registry(TRUE, FALSE, UNDEFINED)
RegistryNoLatest == Registry(TRUE, TRUE, UNDEFINED)
RegistryFound == Registry(TRUE, TRUE, Str(sFetched))
RegistryAnswers ==
  {RegistryRejects, RegistryNoDistTags, RegistryNoLatest, RegistryFound}
NoAdded ==
  [runs |-> 0, tasks |-> <<>>, registryPlaywright |-> RegistryRejects,
   registryTypesNode |-> RegistryRejects, uses |-> FALSE]

\* projectUsesTsconfigReferences(tree)
ProjectUsesTsconfigReferences(t) ==
  IF ~Exists(t, Tail(pTsconfigJson)) THEN FALSE ELSE t.hasRefs

\* filterTsconfigFiles without any filtering
FilterTsconfigFilesNone(path, usesReferences) == TRUE

\* filterTsconfigFiles(path, usesReferences)
FilterTsconfigFiles(path, usesReferences) ==
  IF usesReferences THEN ~EndsWith(path, Tail(pOldTsconfig))
  ELSE ~EndsWith(path, sTsconfigE2eSuffix)

\* the files of the schematic's ./files directory
TemplateFiles ==
  {pPlaywrightConfig, pOldTsconfig, pExampleSpec, pRootTsconfigE2e}

\* copyFiles: the filtered templates are merged into the tree; a file that
\* is there already is written over (AllowCreationConflict)
CopyFiles(t, usesReferences) ==
  [t EXCEPT !.files =
     @ \cup {Normalize(path) : path \in
               {f \in TemplateFiles : FilterTsconfigFiles(f, usesReferences)}}]

\* updateAngular(tree): every project gets the playwright e2e target
UpdateAngular(t) ==
  IF ~Exists(t, Tail(pAngularJson)) THEN t ELSE [t EXCEPT !.angularE2e = TRUE]

\* addNpmScript(tree)
AddNpmScript(t) ==
  IF ~Exists(t, Tail(pPackageJson)) THEN t
  ELSE IF ~Truthy(t.e2eScript) THEN [t EXCEPT !.e2eScript = Str(sNgE2e)]
       ELSE t

\* gitignore(tree): the Playwright block is appended
Gitignore(t) ==
  IF ~Exists(t, Tail(pGitignore)) THEN t
  ELSE [t EXCEPT !.gitignoreBlocks = @ + 1]

\* getLatestNpmVersion(packageName), given the registry's answer
GetLatestNpmVersion(answer) ==
  IF ~answer.ok THEN Str(sLatest)
  ELSE IF ~answer.distTags THEN Str(sLatest)
  ELSE Coalesce(answer.latest, Str(sLatest))

\* the order of UTF-16 code units among the characters package names use
CodeUnitOrder == <<"-", ".", "/">> \o DigitSeq \o <<"@">> \o LowerSeq
CodeOf(c) == CHOOSE i \in DOMAIN CodeUnitOrder : CodeUnitOrder[i] = c
\* a < b as Array.prototype.sort() compares two strings
RECURSIVE KeyLess(_, _)
KeyLess(a, b) ==
  IF b = <<>> THEN FALSE
  ELSE IF a = <<>> THEN TRUE
  ELSE IF a[1] # b[1] THEN CodeOf(a[1]) < CodeOf(b[1])
  ELSE KeyLess(Tail(a), Tail(b))

\* sortObjectByKeys(obj): the entries rebuilt in the order of the sorted keys
RECURSIVE SortByKeys(_, _)
SortByKeys(obj, keys) ==
  IF keys = {} THEN <<>>
  ELSE LET first == CHOOSE k \in keys : \A o \in keys \ {k} : KeyLess(k, o)
       IN <<[k |-> first, v |-> Get(obj, first)]>>
            \o SortByKeys(obj, keys \ {first})
SortObjectByKeys(obj) == SortByKeys(obj, {obj[i].k : i \in DOMAIN obj})

\* addPackageToPackageJson(tree, context, pkg, version)
AddPackageToPackageJson(t, pkg, version) ==
  IF ~Exists(t, Tail(pPackageJson)) THEN t
  ELSE LET deps0 == IF ~t.hasDevDeps THEN <<>> ELSE t.devDeps
           deps1 == IF ~Truthy(Get(deps0, pkg))
                    THEN Put(deps0, pkg, version) ELSE deps0
       IN [t EXCEPT !.hasDevDeps = TRUE, !.devDeps = SortObjectByKeys(deps1)]

\* addPlaywright(tree, context), given the registry's two answers
AddPlaywright(t, answerTypesNode, answerPlaywright) ==
  LET typesNodeVersion == GetLatestNpmVersion(answerTypesNode)
      playwrightVersion == GetLatestNpmVersion(answerPlaywright)
  IN AddPackageToPackageJson(
       AddPackageToPackageJson(t, pkgPlaywright, playwrightVersion),
       pkgTypesNode, typesNodeVersion)

\* handleTsconfigReferences appending the reference whatever is there
HandleTsconfigReferencesAlwaysAppends(t) ==
  IF ~Exists(t, Tail(pTsconfigJson)) THEN t
  ELSE [t EXCEPT !.files = @ \ {Normalize(Tail(pOldTsconfig))},
                 !.hasRefs = TRUE,
                 !.refs = Append(IF t.hasRefs THEN t.refs ELSE <<>>, rE2e)]

\* handleTsconfigReferences(tree, context)
HandleTsconfigReferences(t) ==
  IF ~Exists(t, Tail(pTsconfigJson)) THEN t
  ELSE LET t1 == IF Exists(t, Tail(pOldTsconfig))
                 THEN [t EXCEPT !.files = @ \ {Normalize(Tail(pOldTsconfig))}]
                 ELSE t
           referenceExists ==
             t1.hasRefs /\ \E i \in DOMAIN t1.refs : t1.refs[i] = rE2e
       IN IF ~referenceExists
          THEN [t1 EXCEPT !.hasRefs = TRUE,
                          !.refs = Append(IF t1.hasRefs THEN t1.refs ELSE <<>>,
                                          rE2e)]
          ELSE t1

(***************************************************************************)
(* startPlaywrightTest (Process Runner).                                   *)
(***************************************************************************)
\* the value of PLAYWRIGHT_TEST_BASE_URL in the env given to spawn:
\* env = process.env, or { PLAYWRIGHT_TEST_BASE_URL: baseURL, ...process.env }
EnvFor(url, amb) ==
  IF Truthy(url)
  THEN IF amb # UNDEFINED THEN amb ELSE url
  ELSE amb

NoRunner ==
  [command |-> <<>>, args |-> <<>>, baseURL |-> UNDEFINED, env |-> UNDEFINED,
   spawned |-> FALSE]
NoExit == Val("none", FALSE, 0, <<>>, <<>>)

\* ExitResolves with the test by truthiness, `if (exitCode) reject(exitCode)`
ExitResolvesByTruthiness(code) == ~Truthy(code)

\* childProcess.on('exit', (exitCode) => { if (exitCode !== 0) reject(exitCode);
\* resolve(true) }): TRUE when the promise resolves, FALSE when it rejects
ExitResolves(code) == ~(code # Num(0))

\* the locals and the history of one runE2E invocation: `options` is the
\* parameter (a reference to the host's object), `server` and `baseURL` are
\* declared inside the function
Locals(id, o, o0) ==
  [id |-> id, options |-> o, options0 |-> o0, argv |-> <<>>, pc |-> "idle",
   server |-> "undefined", baseURL |-> Str(<<>>), result |-> "none",
   overrides |-> NoOverrides, runner |-> NoRunner, exitCode |-> NoExit,
   log |-> <<>>]
\* no second invocation
NoParked == [Locals(2, <<>>, <<>>) EXCEPT !.pc = "none"]

(***************************************************************************)
(* runE2E (Orchestrator).  One action per run of the function between two  *)
(* suspension points; catch and finally run in the action that reaches     *)
(* them.                                                                   *)
(***************************************************************************)
\* what a call of server.stop() can do: return a promise that resolves,
\* return a promise that rejects, or throw
StopBehaviours == {"resolves", "rejects", "throws"}

\* Finally with the stop in the try block, after the tests passed, only
FinallyStopOnSuccessOnly(completion, srv, lg) ==
  IF srv = "handle" /\ completion = "true"
  THEN \E sb \in StopBehaviours :
         /\ log' = lg \o <<"stop">> \o
                     (IF sb = "throws" THEN <<"throw">> ELSE <<"return">>)
         /\ result' = IF sb = "throws" THEN "error" ELSE completion
         /\ pc' = IF sb = "throws" THEN "rejected" ELSE "done"
         /\ unhandled' = IF sb = "rejects" THEN unhandled + 1 ELSE unhandled
  ELSE /\ log' = lg \o <<"return">>
       /\ result' = completion
       /\ pc' = "done"
       /\ unhandled' = unhandled

\* Finally with the stop deferred until the result has been handed over
FinallyReturnThenStop(completion, srv, lg) ==
  /\ log' = lg \o <<"return">> \o (IF srv = "handle" THEN <<"stop">> ELSE <<>>)
  /\ result' = completion
  /\ pc' = "done"
  /\ unhandled' = unhandled

\* finally { if (server) { server.stop(); } } and the completion of the
\* function: `completion` is what try/catch returned, `srv` the local server,
\* `lg` the log so far
Finally(completion, srv, lg) ==
  IF srv = "handle"
  THEN \E sb \in StopBehaviours :
         /\ log' = lg \o <<"stop">> \o
                     (IF sb = "throws" THEN <<"throw">> ELSE <<"return">>)
         /\ result' = IF sb = "throws" THEN "error" ELSE completion
         /\ pc' = IF sb = "throws" THEN "rejected" ELSE "done"
         /\ unhandled' = IF sb = "rejects" THEN unhandled + 1 ELSE unhandled
  ELSE /\ log' = lg \o <<"return">>
       /\ result' = completion
       /\ pc' = "done"
       /\ unhandled' = unhandled

\* what spawn() can do at once: return a child, or throw (an error that is
\* not a run-time error); a child that could not be spawned emits 'error'
\* later (ChildError)
SpawnBehaviours == {"child", "throws"}

\* await startPlaywrightTest(options, baseURL) up to its suspension: the env,
\* buildArgs(options) and spawn(); a throw of spawn rejects the promise and
\* runE2E goes through catch and finally
\* what spawn() is given: the command, buildArgs(options) and the env
SpawnGiven(url) ==
  [command |-> GetPackageManagerExecCommand(marker) \o cPlaywrightTest,
   args |-> BuildArgs(options).args, baseURL |-> url,
   env |-> EnvFor(url, ambient), spawned |-> TRUE]

\* StartPlaywrightTest with the promise not awaited: runE2E goes on to
\* return { success: true } and to finally while the child runs
StartPlaywrightTestNotAwaited(url, srv, lg) ==
  /\ options' = BuildArgs(options).options
  /\ argv' = Append(argv, [given |-> options, args |-> BuildArgs(options).args])
  /\ runner' = SpawnGiven(url)
  /\ Finally("true", srv, lg \o <<"spawn">>)

StartPlaywrightTest(url, srv, lg) ==
  /\ options' = BuildArgs(options).options
  /\ argv' = Append(argv, [given |-> options, args |-> BuildArgs(options).args])
  /\ runner' = SpawnGiven(url)
  /\ \E sp \in SpawnBehaviours :
       IF sp = "child"
       THEN /\ pc' = "awaitExit"
            /\ log' = lg \o <<"spawn">>
            /\ UNCHANGED <<result, unhandled>>
       ELSE Finally("false", srv, lg \o <<"spawn", "spawnThrew">>)

\* WantsServer with the test `options.devServerTarget !== null`
WantsServerNotNull(o) == Get(o, kDevServerTarget) # NULL

\* if (options.devServerTarget)
WantsServer(o) == Truthy(Get(o, kDevServerTarget))

\* runE2E is called: lines 124-133 up to `await context.scheduleTarget`, or,
\* with no dev server target, up to the await of startPlaywrightTest
Call ==
  /\ pc = "idle"
  /\ IF WantsServer(options)
     THEN IF ValidTargetString(Get(options, kDevServerTarget).s)
          THEN /\ overrides' = OverridesFor(Get(options, kPort))
               /\ pc' = "awaitSchedule"
               /\ log' = log \o <<"scheduleTarget">>
               /\ UNCHANGED <<options, argv, runner, result, unhandled>>
          ELSE /\ Finally("false", server, log)
               /\ UNCHANGED <<options, argv, runner, overrides>>
     ELSE /\ StartPlaywrightTest(baseURL, server, log)
          /\ UNCHANGED overrides
  /\ UNCHANGED <<options0, server, baseURL, exitCode, ambient>>
  /\ UNCHANGED <<pkgVars, addVars, twoVars>>

\* ScheduleRejected with the rejection swallowed: the tests run without server
ScheduleRejectedSwallowed ==
  StartPlaywrightTest(baseURL, server, log \o <<"scheduleRejected">>)

\* the await of startDevServer throws: catch { return { success: false } },
\* then finally
ScheduleRejected ==
  /\ Finally("false", server, log \o <<"scheduleRejected">>)
  /\ UNCHANGED <<options, argv, runner>>

\* context.scheduleTarget settles
ScheduleSettles ==
  /\ pc = "awaitSchedule"
  /\ \E accepted \in BOOLEAN :
       IF accepted
       THEN /\ server' = "handle"
            /\ pc' = "awaitResult"
            /\ log' = log \o <<"handle">>
            /\ UNCHANGED <<options, argv, runner, result, unhandled>>
       ELSE /\ ScheduleRejected
            /\ UNCHANGED server
  /\ UNCHANGED <<options0, baseURL, overrides, exitCode, ambient>>
  /\ UNCHANGED <<pkgVars, addVars, twoVars>>

\* the values result.baseUrl can have: a URL, or nothing when the server's
\* output carries no baseUrl
BaseUrls == {Str(sUrl), UNDEFINED}

\* ResultRejected with the rejection swallowed: the tests run with no base URL
ResultRejectedSwallowed ==
  StartPlaywrightTest(baseURL, server, log \o <<"resultRejected">>)

\* `await server.result` throws: catch { return { success: false } }, then
\* finally
ResultRejected ==
  /\ Finally("false", server, log \o <<"resultRejected">>)
  /\ UNCHANGED <<options, argv, runner>>

\* ResultResolved with the tests started on the base URL held before
ResultResolvedStaleUrl(url) ==
  /\ baseURL' = url
  /\ StartPlaywrightTest(baseURL, server, log \o <<"baseUrl">>)

\* `await server.result` returns: baseURL = result.baseUrl, then
\* await startPlaywrightTest(options, baseURL)
ResultResolved(url) ==
  /\ baseURL' = url
  /\ StartPlaywrightTest(url, server, log \o <<"baseUrl">>)

\* server.result settles
ResultSettles ==
  /\ pc = "awaitResult"
  /\ \/ \E url \in BaseUrls : ResultResolved(url)
     \/ /\ ResultRejected
        /\ UNCHANGED baseURL
  /\ UNCHANGED <<options0, server, overrides, exitCode, ambient>>
  /\ UNCHANGED <<pkgVars, addVars, twoVars>>

\* the exit codes the 'exit' event can carry; null when a signal ended the child
ExitCodes == {Num(0), Num(1), Num(3), NULL}

\* the child emits 'exit'
ChildExit ==
  /\ pc = "awaitExit"
  /\ \E code \in ExitCodes :
       /\ exitCode' = code
       /\ Finally(IF ExitResolves(code) THEN "true" ELSE "false", server,
                  log \o <<"exit">>)
  /\ UNCHANGED <<options, options0, argv, server, baseURL, overrides, runner,
                 ambient>>
  /\ UNCHANGED <<pkgVars, addVars, twoVars>>

\* the child emits 'error' (it could not be spawned) and never 'exit': no
\* 'error' listener is registered, so the emitter throws outside runE2E.  The
\* host process ends, or, when the host handles uncaught exceptions, the
\* promise of startPlaywrightTest stays pending for ever.
ChildError ==
  /\ pc = "awaitExit"
  /\ \E handled \in BOOLEAN :
       pc' = IF handled THEN "hung" ELSE "crashed"
  /\ log' = log \o <<"uncaughtException">>
  /\ UNCHANGED <<options, options0, argv, server, baseURL, result, overrides,
                 runner, exitCode, ambient, unhandled>>
  /\ UNCHANGED <<pkgVars, addVars, twoVars>>

Init ==
  /\ options \in OptionsUpTo(MaxRunKeys)
  /\ options0 = options
  /\ argv = <<>>
  /\ pc = "idle"
  /\ server = "undefined"
  /\ baseURL = Str(<<>>)
  /\ result = "none"
  /\ overrides = NoOverrides
  /\ runner = NoRunner
  /\ exitCode = NoExit
  /\ ambient \in {UNDEFINED, Str(sAmbientUrl)}
  /\ unhandled = 0
  /\ log = <<>>
  /\ marker \in {UNDEFINED, Str(cYarn), Str(cPnpm)}
  /\ execCmd = NoExecCmd
  /\ tree = NoTree
  /\ tree0 = NoTree
  /\ added = NoAdded
  /\ parked = NoParked
  /\ shared = FALSE

Next == Call \/ ScheduleSettles \/ ResultSettles \/ ChildExit \/ ChildError

Spec == Init /\ [][Next]_vars

\* The awaited events each occur in the end, as success or as failure:
\* scheduleTarget settles, server.result settles, the child emits 'exit' or
\* 'error'.
Fairness ==
  /\ WF_vars(Call)
  /\ WF_vars(ScheduleSettles)
  /\ WF_vars(ResultSettles)
  /\ WF_vars(ChildExit \/ ChildError)

\* the invocations with at most one option key, for the liveness check
InitFair ==
  /\ Init
  /\ Len(options) <= 1
  /\ ambient = UNDEFINED
  /\ marker = UNDEFINED

SpecFair == InitFair /\ [][Next]_vars /\ Fairness

(***************************************************************************)
(* Two runE2E invocations in one host process.  The event loop runs one    *)
(* continuation at a time; the invocation that is not running keeps its    *)
(* locals in `parked`.                                                     *)
(***************************************************************************)
\* the invocation that is running now
Current ==
  [id |-> 3 - parked.id, options |-> IF shared THEN <<>> ELSE options,
   options0 |-> options0, argv |-> argv, pc |-> pc, server |-> server,
   baseURL |-> baseURL, result |-> result, overrides |-> overrides,
   runner |-> runner, exitCode |-> exitCode, log |-> log]

\* the event loop resumes the other invocation: every local of runE2E and
\* startPlaywrightTest belongs to its invocation; the options object is the
\* host's, one for both invocations when the host passed the same reference;
\* process.env and the host process are one
Switch ==
  /\ parked.pc \notin {"none", "done", "rejected", "hung", "crashed"}
  /\ pc # "crashed"
  /\ parked' = Current
  /\ options' = IF shared THEN options ELSE parked.options
  /\ options0' = parked.options0
  /\ argv' = parked.argv
  /\ pc' = parked.pc
  /\ server' = parked.server
  /\ baseURL' = parked.baseURL
  /\ result' = parked.result
  /\ overrides' = parked.overrides
  /\ runner' = parked.runner
  /\ exitCode' = parked.exitCode
  /\ log' = parked.log
  /\ UNCHANGED <<ambient, unhandled, shared, pkgVars, addVars>>

\* the options the host gives an invocation: with and without files, with
\* and without a dev server target
TwoOptions ==
  {<<>>,
   <<[k |-> kFiles, v |-> Arr(<<fB, fA>>)], [k |-> kHeaded, v |-> Bool(TRUE)]>>,
   <<[k |-> kDevServerTarget, v |-> Str(tServe)]>>,
   <<[k |-> kFiles, v |-> Arr(<<fA>>)], [k |-> kDevServerTarget, v |-> Str(tServe)]>>}

InitTwo ==
  /\ options \in TwoOptions
  /\ options0 = options
  /\ argv = <<>>
  /\ pc = "idle"
  /\ server = "undefined"
  /\ baseURL = Str(<<>>)
  /\ result = "none"
  /\ overrides = NoOverrides
  /\ runner = NoRunner
  /\ exitCode = NoExit
  /\ ambient = UNDEFINED
  /\ unhandled = 0
  /\ log = <<>>
  /\ marker = UNDEFINED
  /\ execCmd = NoExecCmd
  /\ tree = NoTree
  /\ tree0 = NoTree
  /\ added = NoAdded
  /\ shared \in BOOLEAN
  /\ \E o2 \in TwoOptions :
       /\ shared => o2 = options
       /\ parked = Locals(2, IF shared THEN <<>> ELSE o2, o2)

NextTwo ==
  Call \/ ScheduleSettles \/ ResultSettles \/ ChildExit \/ ChildError \/ Switch

SpecTwo == InitTwo /\ [][NextTwo]_vars

(***************************************************************************)
(* The argument translator alone: the host hands buildArgs the same        *)
(* options object again and again.                                         *)
(***************************************************************************)
Translate ==
  /\ pc = "args"
  /\ Len(argv) < MaxCalls
  /\ LET built == BuildArgs(options)
     IN /\ options' = built.options
        /\ argv' = Append(argv, [given |-> options, args |-> built.args])
  /\ UNCHANGED <<options0, pc, server, baseURL, result, overrides, runner,
                 exitCode, ambient, unhandled, log>>
  /\ UNCHANGED <<pkgVars, addVars, twoVars>>

InitArgs ==
  /\ options \in OptionsUpTo(MaxKeys)
  /\ options0 = options
  /\ argv = <<>>
  /\ pc = "args"
  /\ server = "undefined"
  /\ baseURL = Str(<<>>)
  /\ result = "none"
  /\ overrides = NoOverrides
  /\ runner = NoRunner
  /\ exitCode = NoExit
  /\ ambient = UNDEFINED
  /\ unhandled = 0
  /\ log = <<>>
  /\ marker = UNDEFINED
  /\ execCmd = NoExecCmd
  /\ tree = NoTree
  /\ tree0 = NoTree
  /\ added = NoAdded
  /\ parked = NoParked
  /\ shared = FALSE

NextArgs == Translate

SpecArgs == InitArgs /\ [][NextArgs]_vars

(***************************************************************************)
(* The two copies of getPackageManagerExecCommand, for every marker.       *)
(***************************************************************************)
\* installBrowsers(): the rule logs, runs `<prefix> playwright install` with
\* spawnSync (its outcome is ignored) and returns the tree as it is
InstallBrowsers ==
  /\ pc = "pkg"
  /\ execCmd.install = <<>>
  /\ execCmd' = [execCmd EXCEPT
                   !.install = InstallBrowsersExecCommand(marker),
                   !.installCommand =
                      InstallBrowsersExecCommand(marker) \o cPlaywrightInstall]
  /\ UNCHANGED <<runVars, marker, addVars, twoVars>>

\* the builder computes its prefix for spawn (startPlaywrightTest, line 95)
ResolveExec ==
  /\ pc = "pkg"
  /\ execCmd.builder = <<>>
  /\ execCmd' = [execCmd EXCEPT !.builder = GetPackageManagerExecCommand(marker)]
  /\ UNCHANGED <<runVars, marker, addVars, twoVars>>

InitPkg ==
  /\ options = <<>>
  /\ options0 = options
  /\ argv = <<>>
  /\ pc = "pkg"
  /\ server = "undefined"
  /\ baseURL = Str(<<>>)
  /\ result = "none"
  /\ overrides = NoOverrides
  /\ runner = NoRunner
  /\ exitCode = NoExit
  /\ ambient = UNDEFINED
  /\ unhandled = 0
  /\ log = <<>>
  /\ marker \in Markers(MaxParts)
  /\ execCmd = NoExecCmd
  /\ tree = NoTree
  /\ tree0 = NoTree
  /\ added = NoAdded
  /\ parked = NoParked
  /\ shared = FALSE

NextPkg == InstallBrowsers \/ ResolveExec

SpecPkg == InitPkg /\ [][NextPkg]_vars

(***************************************************************************)
(* The ng-add schematic, run again and again on one tree.                  *)
(***************************************************************************)
\* ngAdd(options)(tree, context): the whole chain of rules
NgAdd ==
  /\ pc = "add"
  /\ added.runs < MaxRuns
  /\ \E installBrowsers \in BOOLEAN :
     \E answerTypesNode \in RegistryAnswers :
     \E answerPlaywright \in RegistryAnswers :
       LET usesTsconfigReferences == ProjectUsesTsconfigReferences(tree)
           t1 == UpdateAngular(tree)
           t2 == AddNpmScript(t1)
           t3 == Gitignore(t2)
           t4 == CopyFiles(t3, usesTsconfigReferences)
           t5 == AddPlaywright(t4, answerTypesNode, answerPlaywright)
           t6 == IF usesTsconfigReferences
                 THEN HandleTsconfigReferences(t5) ELSE t5
       IN /\ tree' = t6
          /\ tree0' = tree
          /\ added' =
               [runs |-> added.runs + 1,
                tasks |-> (IF installBrowsers
                           THEN <<"install-browsers">> ELSE <<>>)
                          \o <<"node-package">>,
                registryPlaywright |-> answerPlaywright,
                registryTypesNode |-> answerTypesNode,
                uses |-> usesTsconfigReferences]
  /\ UNCHANGED <<runVars, pkgVars, twoVars>>

\* the files a project may have before ng-add
ProjectFiles ==
  {pTsconfigJson, pPackageJson, pAngularJson, pGitignore, pOldTsconfig,
   pRootTsconfigE2e}
\* the reference lists of tsconfig.json: ng-add itself never leaves more
\* than one reference to ./tsconfig.e2e.json
RefLists(n) ==
  {r \in UNION {[1..m -> {rApp, rE2e}] : m \in 0..n} :
     Cardinality({i \in DOMAIN r : r[i] = rE2e}) <= 1}
\* the devDependencies objects of package.json, in any key order
DepEntries ==
  {[k |-> pkgPlaywright, v |-> Str(sCaret)], [k |-> pkgPlaywright, v |-> Str(<<>>)],
   [k |-> pkgTypesNode, v |-> Str(sCaret)], [k |-> pkgTypescript, v |-> Str(sTilde)]}
DepObjects(n) ==
  {d \in UNION {[1..m -> DepEntries] : m \in 0..n} :
     \A i, j \in DOMAIN d : i # j => d[i].k # d[j].k}

\* package.json as `ng new` writes it: scripts without e2e, devDependencies
StandardPackage(f, hd, d, sc) ==
  /\ pPackageJson \in f
  /\ hd
  /\ d = <<[k |-> pkgTypescript, v |-> Str(sTilde)]>>
  /\ sc = UNDEFINED
\* the other files as `ng new` writes them: tsconfig.json with references,
\* angular.json and .gitignore, no e2e tsconfig yet
StandardLayout(f, h, r) ==
  /\ f \ {pPackageJson} = {pTsconfigJson, pAngularJson, pGitignore}
  /\ h
  /\ r = <<rApp>>

\* a project before ng-add: the workspace `ng new` writes, with any
\* package.json or with any layout of the other files (each rule of the
\* chain reads and writes its own file only)
InitAdd ==
  /\ options = <<>>
  /\ options0 = options
  /\ argv = <<>>
  /\ pc = "add"
  /\ server = "undefined"
  /\ baseURL = Str(<<>>)
  /\ result = "none"
  /\ overrides = NoOverrides
  /\ runner = NoRunner
  /\ exitCode = NoExit
  /\ ambient = UNDEFINED
  /\ unhandled = 0
  /\ log = <<>>
  /\ marker = UNDEFINED
  /\ execCmd = NoExecCmd
  /\ \E f \in SUBSET ProjectFiles, h \in BOOLEAN, r \in RefLists(MaxRefs),
        hd \in BOOLEAN, d \in DepObjects(MaxDeps),
        sc \in {UNDEFINED, Str(sOtherE2e)} :
       /\ StandardPackage(f, hd, d, sc) \/ StandardLayout(f, h, r)
       /\ pTsconfigJson \notin f => ~h
       /\ ~h => r = <<>>
       /\ pPackageJson \notin f => (~hd /\ sc = UNDEFINED)
       /\ ~hd => d = <<>>
       /\ tree = [files |-> f, hasRefs |-> h, refs |-> r, hasDevDeps |-> hd,
                  devDeps |-> d, e2eScript |-> sc, angularE2e |-> FALSE,
                  gitignoreBlocks |-> 0]
  /\ tree0 = tree
  /\ added = NoAdded
  /\ parked = NoParked
  /\ shared = FALSE

NextAdd == NgAdd

SpecAdd == InitAdd /\ [][NextAdd]_vars

(***************************************************************************)
(* Vocabulary of the claims.                                               *)
(***************************************************************************)
Count(lg, e) == Cardinality({i \in DOMAIN lg : lg[i] = e})
Happened(e) == \E i \in DOMAIN log : log[i] = e
\* every `b` of the log has an `a` before it
Precedes(a, b) ==
  \A j \in DOMAIN log : log[j] = b => \E i \in 1..(j - 1) : log[i] = a
\* the runE2E promise has settled: resolved with a result, or rejected
Settled == pc \in {"done", "rejected"}
\* a ServerHandle was obtained from context.scheduleTarget
HandleObtained == Happened("handle")
\* options.devServerTarget is null, undefined (no such key) or ""
TargetAbsent == Get(options0, kDevServerTarget) \in {NULL, UNDEFINED, Str(<<>>)}

C2_NoErrorEscapes == pc \notin {"rejected", "crashed", "hung"}

C4_SpawnErrorGivesFailure ==
  Happened("uncaughtException") =>
    /\ pc = "done"
    /\ result = "false"
    /\ HandleObtained => Count(log, "stop") = 1

(* C5: with options.devServerTarget absent (null, undefined or ""),        *)
(* scheduleTarget is never called, no handle is obtained, stop() is never  *)
(* called, and the process runner is invoked, with base URL "".            *)
C5_NoTargetNoServer ==
  TargetAbsent =>
    /\ ~Happened("scheduleTarget")
    /\ overrides = NoOverrides
    /\ server = "undefined"
    /\ ~Happened("stop")
    /\ pc # "idle" => (runner.spawned /\ runner.baseURL = Str(<<>>))

\* devServerTarget is the empty string and the process runner was invoked
C5_Witness ==
  /\ Get(options0, kDevServerTarget) = Str(<<>>)
  /\ runner.spawned
  /\ pc = "done"

(* C6: when scheduleTarget rejects, the result is {success: false}, the    *)
(* process runner is never invoked and stop() is never invoked.            *)
C6_ScheduleRejected ==
  Happened("scheduleRejected") =>
    /\ pc = "done"
    /\ result = "false"
    /\ ~runner.spawned
    /\ argv = <<>>
    /\ ~Happened("spawn")
    /\ ~Happened("stop")
    /\ server = "undefined"

\* scheduleTarget was called and rejected
C6_Witness ==
  /\ Happened("scheduleTarget")
  /\ Happened("scheduleRejected")
  /\ pc = "done"

C8_StopBeforeResult ==
  (HandleObtained /\ Happened("exit")) =>
    /\ Precedes("stop", "return")
    /\ Precedes("exit", "stop")
    /\ (pc = "done" \/ result \in {"true", "false"}) => Count(log, "stop") = 1

\* a server was started, the process exited 0 and {success: true} was delivered
C8_Witness ==
  /\ HandleObtained
  /\ exitCode = Num(0)
  /\ pc = "done"
  /\ result = "true"
  /\ Happened("return")

(* C9 (as claimed): buildArgs leaves every key of the options object with  *)
(* the value it had, and translating the same object twice gives the same  *)
(* argument list.                                                          *)
C9_OptionsNotMutated ==
  /\ \A i \in DOMAIN options0 : Get(options, options0[i].k) = options0[i].v
  /\ \A i, j \in DOMAIN argv : argv[i].args = argv[j].args

\* the entries buildArgs must turn into flags: all but the reserved keys
ReservedKeys == {kDevServerTarget, kPort, kFiles}
NotReserved(e) == e.k \notin ReservedKeys
\* the flags the reserved keys would give
ReservedFlags ==
  {<<"-","-","f","i","l","e","s">>, <<"-","-","p","o","r","t">>,
   <<"-","-","d","e","v","-","s","e","r","v","e","r","-","t","a","r","g","e","t">>,
   <<"-","-","d","e","v","S","e","r","v","e","r","T","a","r","g","e","t">>}
FilesOf(o) == IF Get(o, kFiles).t = "array" THEN Get(o, kFiles).a ELSE <<>>

(* C10: the argument list is the files entries, bare and in their order,   *)
(* then the flag tokens of the other keys in the mapping's key order; the  *)
(* reserved keys devServerTarget, port and files give no flag token.       *)
C10_FilesFirstThenFlags ==
  \A c \in DOMAIN argv :
    LET files == FilesOf(argv[c].given)
        out == argv[c].args
        flags == SubSeq(out, Len(files) + 1, Len(out))
    IN /\ Len(out) >= Len(files)
       /\ SubSeq(out, 1, Len(files)) = files
       /\ flags = FlatMapArgs(SelectSeq(argv[c].given, NotReserved))
       /\ \A i \in DOMAIN flags : flags[i] \notin ReservedFlags

\* two files, a reserved key and a flag key were translated
C10_Witness ==
  \E c \in DOMAIN argv :
    /\ Len(FilesOf(argv[c].given)) = 2
    /\ HasKey(argv[c].given, kPort)
    /\ Get(argv[c].given, kPort) = Num(4200)
    /\ Len(argv[c].args) = 4

\* the flag each non-reserved key of the model must give, written out
ExpectedFlag(k) ==
  CASE k = kHeaded -> <<"-","-","h","e","a","d","e","d">>
    [] k = kWorkers -> <<"-","-","w","o","r","k","e","r","s">>
    [] k = kUiPort -> <<"-","-","u","i","-","p","o","r","t">>
    [] k = kX -> <<"-","x">>
    [] OTHER -> <<"-","-","g","r","e","p">>
\* the string form of the values of the model, written out
ExpectedText(val) ==
  CASE val = Num(0) -> <<"0">>
    [] val = Num(2) -> <<"2">>
    [] val = Num(10) -> <<"1","0">>
    [] val = Str(sY) -> <<"y">>
    [] OTHER -> <<>>
\* the tokens the claim gives one entry, by the type of its value
ExpectedTokens(e) ==
  CASE e.v.t = "boolean" -> IF e.v.b THEN <<ExpectedFlag(e.k)>> ELSE <<>>
    [] e.v.t \in {"plainobject", "array", "null", "undefined"} -> <<>>
    [] OTHER -> <<ExpectedFlag(e.k), ExpectedText(e.v)>>
RECURSIVE ExpectedFlags(_)
ExpectedFlags(o) ==
  IF o = <<>> THEN <<>> ELSE ExpectedTokens(o[1]) \o ExpectedFlags(Tail(o))

C12_EnvCarriesBaseUrl ==
  runner.spawned =>
    IF runner.baseURL.t = "string" /\ runner.baseURL.s # <<>>
    THEN runner.env = runner.baseURL
    ELSE runner.env = ambient

(* C13 (as claimed): the overrides given to scheduleTarget are empty when  *)
(* options.port is null or undefined, and exactly {port} when it is given. *)
C13_OverridesPortOnlyWhenGiven ==
  Happened("scheduleTarget") =>
    IF Get(options0, kPort) \in {NULL, UNDEFINED}
    THEN overrides = <<>>
    ELSE overrides = <<[k |-> kPort, v |-> Get(options0, kPort)]>>

(* C18: with a dev server target, the process runner is invoked only after *)
(* the handle was obtained and server.result has resolved, and the base    *)
(* URL it is given is the value server.result resolved with; runE2E never  *)
(* awaits the child before that.                                           *)
C18_RunnerAfterBaseUrl ==
  ~TargetAbsent =>
    /\ runner.spawned =>
         /\ HandleObtained
         /\ Precedes("handle", "baseUrl")
         /\ Precedes("baseUrl", "spawn")
         /\ baseURL \in BaseUrls
         /\ runner.baseURL = baseURL
    /\ pc = "awaitExit" => (Happened("baseUrl") /\ runner.spawned)
    /\ pc \in {"awaitSchedule", "awaitResult"} => ~runner.spawned

\* the server resolved with a URL and the runner was started with it
C18_Witness ==
  /\ HandleObtained
  /\ runner.spawned
  /\ runner.baseURL = Str(sUrl)
  /\ pc = "awaitExit"

(* C19: where a handle was obtained and the process runner invoked, stop() *)
(* is not invoked while the child runs: every stop() comes after the       *)
(* child's exit or after spawn failed to start it.                         *)
C19_StopAfterProcessEnds ==
  (HandleObtained /\ runner.spawned) =>
    /\ pc = "awaitExit" => ~Happened("stop")
    /\ \A j \in DOMAIN log :
         log[j] = "stop" =>
           \E i \in 1..(j - 1) : log[i] \in {"exit", "spawnThrew"}

\* handle obtained, child started and exited, then stop() was invoked
C19_Witness ==
  /\ HandleObtained
  /\ Happened("spawn")
  /\ Happened("exit")
  /\ Happened("stop")

(* C20 (as claimed): runE2E suspends at three points only and has no       *)
(* timeout: while server.result or the child's exit is outstanding nothing *)
(* is returned and stop() is not invoked; and once the awaited events have *)
(* all occurred (no step of the invocation is left), the invocation is     *)
(* Done with a {success} result.                                           *)
C20_EndsDoneWithResult ==
  /\ pc \in {"idle", "awaitSchedule", "awaitResult", "awaitExit", "done",
             "rejected", "crashed", "hung"}
  /\ pc \in {"awaitResult", "awaitExit"} =>
       /\ result = "none"
       /\ ~Happened("stop")
       /\ ~Happened("return")
  /\ (ENABLED Next) \/ (pc = "done" /\ result \in {"true", "false"})

\* the liveness half of C20 alone, for SpecFair
C20_EventuallyDone == <>(pc = "done" /\ result \in {"true", "false"})

\* under SpecFair every invocation does come to an end of some kind
C20_EventuallyEnds == <>(pc \in {"done", "rejected", "crashed", "hung"})

\* the part of C20 that holds of the code
C20_PendingWhileAwaiting ==
  /\ pc \in {"awaitSchedule", "awaitResult", "awaitExit"} =>
       (result = "none" /\ ~Happened("stop") /\ ~Happened("return"))
  /\ (~ENABLED Next) => pc \in {"done", "rejected", "crashed", "hung"}

\* the marker string as the functions read it: '' when it is unset
MarkerText == IF marker.t = "string" THEN marker.s ELSE <<>>
\* the marker has the four characters of `word` somewhere
MarkerHas(word) ==
  \E i \in 1..Len(MarkerText) :
    /\ i + 3 <= Len(MarkerText)
    /\ \A j \in 1..4 : MarkerText[i + j - 1] = word[j]
\* the prefix the claim gives the marker
ExpectedPrefix ==
  IF MarkerHas(<<"y","a","r","n">>) THEN <<"y","a","r","n">>
  ELSE IF MarkerHas(<<"p","n","p","m">>)
       THEN <<"p","n","p","m"," ","e","x","e","c">>
       ELSE <<"n","p","x">>

(* C14: for every marker the prefix is yarn when the marker contains       *)
(* "yarn", else pnpm exec when it contains "pnpm", else npx (also for an   *)
(* empty or unset marker); the builder's and install-browsers' copies of   *)
(* the function return the same prefix.                                    *)
C14_PrefixByMarker ==
  /\ execCmd.builder # <<>> => execCmd.builder = ExpectedPrefix
  /\ execCmd.install # <<>> => execCmd.install = ExpectedPrefix
  /\ (execCmd.builder # <<>> /\ execCmd.install # <<>>) =>
       execCmd.builder = execCmd.install

\* a marker naming pnpm before yarn: both copies answered yarn
C14_Witness ==
  /\ marker = Str(<<"p","n","p","m","y","a","r","n">>)
  /\ execCmd.builder = <<"y","a","r","n">>
  /\ execCmd.install = <<"y","a","r","n">>

\* the project the latest run started from used tsconfig references
UsedReferences == pTsconfigJson \in tree0.files /\ tree0.hasRefs
\* how many references of a tree's tsconfig.json point at ./tsconfig.e2e.json
E2eReferences(t) == Cardinality({i \in DOMAIN t.refs : t.refs[i] = rE2e})

(* C15: for a project whose tsconfig.json uses references, after one or    *)
(* more successive ng-add runs on the same tree the references of          *)
(* tsconfig.json hold exactly one entry with path ./tsconfig.e2e.json.     *)
C15_OneE2eReference ==
  (added.runs >= 1 /\ UsedReferences) =>
    (tree.hasRefs /\ E2eReferences(tree) = 1)

\* a second run on a tree whose first run had added the reference
C15_Witness ==
  /\ added.runs = 2
  /\ UsedReferences
  /\ E2eReferences(tree0) = 1
  /\ E2eReferences(tree) = 1
  /\ Len(tree.refs) > 1

(* C16: after ng-add one tsconfig layout is there, chosen by the           *)
(* references array of the project's tsconfig.json: with references,       *)
(* /tsconfig.e2e.json exists, /e2e/tsconfig.json does not (one that was    *)
(* there is removed) and the reference to ./tsconfig.e2e.json is present;  *)
(* without, /e2e/tsconfig.json exists (one that was there is kept),        *)
(* /tsconfig.e2e.json is not created and tsconfig.json has no references.  *)
C16_OneTsconfigLayout ==
  added.runs >= 1 =>
    IF UsedReferences
    THEN /\ pRootTsconfigE2e \in tree.files
         /\ pOldTsconfig \notin tree.files
         /\ tree.hasRefs /\ E2eReferences(tree) >= 1
    ELSE /\ pOldTsconfig \in tree.files
         /\ pRootTsconfigE2e \in tree.files => pRootTsconfigE2e \in tree0.files
         /\ ~tree.hasRefs

\* a project with references migrated from an old e2e/tsconfig.json
C16_Witness ==
  /\ added.runs = 1
  /\ UsedReferences
  /\ pOldTsconfig \in tree0.files
  /\ pRootTsconfigE2e \notin tree0.files
  /\ pOldTsconfig \notin tree.files
  /\ pRootTsconfigE2e \in tree.files

\* a project without references that had an old e2e/tsconfig.json keeps it
C16_WitnessWithoutReferences ==
  /\ added.runs = 1
  /\ pTsconfigJson \in tree0.files /\ ~tree0.hasRefs
  /\ pOldTsconfig \in tree0.files
  /\ pOldTsconfig \in tree.files
  /\ pRootTsconfigE2e \notin tree.files

\* the version the claim has recorded for a package, given the registry's
\* answer: the fetched one when the lookup succeeded, else 'latest'
ClaimedVersion(answer) ==
  IF answer = RegistryFound THEN Str(sFetched) ELSE Str(sLatest)
\* the keys of an object are in sorted order
KeysSorted(obj) ==
  \A i, j \in DOMAIN obj : i < j => KeyLess(obj[i].k, obj[j].k)
\* the entry of pkg after the run, when `kept` says the old entry stays
RecordedOrKept(pkg, answer, kept) ==
  IF kept THEN Get(tree.devDeps, pkg) = Get(tree0.devDeps, pkg)
  ELSE Get(tree.devDeps, pkg) = ClaimedVersion(answer)

(* C17: when the registry lookup fails (fetch rejects, or no latest        *)
(* dist-tag) ng-add still completes and records 'latest' for               *)
(* @playwright/test and @types/node in devDependencies; when it succeeds   *)
(* the fetched version is recorded; either way an entry the package        *)
(* already had is left unchanged and the keys end up sorted.               *)
C17_VersionsRecorded ==
  (added.runs >= 1 /\ pPackageJson \in tree0.files) =>
    /\ tree.hasDevDeps
    /\ RecordedOrKept(pkgPlaywright, added.registryPlaywright,
                      HasKey(tree0.devDeps, pkgPlaywright))
    /\ RecordedOrKept(pkgTypesNode, added.registryTypesNode,
                      HasKey(tree0.devDeps, pkgTypesNode))
    /\ KeysSorted(tree.devDeps)

\* C17 holds of every entry but the empty one: an entry with a non-empty
\* version is kept, any other is set to the claimed version
C17_NonEmptyEntriesKept ==
  (added.runs >= 1 /\ pPackageJson \in tree0.files) =>
    /\ tree.hasDevDeps
    /\ RecordedOrKept(pkgPlaywright, added.registryPlaywright,
                      Get(tree0.devDeps, pkgPlaywright) \notin {UNDEFINED, Str(<<>>)})
    /\ RecordedOrKept(pkgTypesNode, added.registryTypesNode,
                      Get(tree0.devDeps, pkgTypesNode) \notin {UNDEFINED, Str(<<>>)})
    /\ KeysSorted(tree.devDeps)

\* both lookups failed in different ways and 'latest' was recorded twice
C17_LatestRecorded ==
  /\ added.runs = 1
  /\ added.registryPlaywright = RegistryRejects
  /\ added.registryTypesNode = RegistryNoLatest
  /\ Get(tree.devDeps, pkgPlaywright) = Str(sLatest)
  /\ Get(tree.devDeps, pkgTypesNode) = Str(sLatest)
  /\ Len(tree.devDeps) = 3

\* the two invocations, the running one and the other
Invocations == {Current, parked}
\* the invocation calls stop() on the handle it obtained, and once
StopsOwnHandleOnce(inv) ==
  /\ Count(inv.log, "stop") <= 1
  /\ \A j \in DOMAIN inv.log :
       inv.log[j] = "stop" => \E i \in 1..(j - 1) : inv.log[i] = "handle"
  /\ (inv.pc \in {"done", "rejected"} /\ Count(inv.log, "handle") = 1) =>
       Count(inv.log, "stop") = 1
\* the runner of the invocation got the base URL its own server resolved,
\* and the initial '' when it has no server
RunnerHasOwnBaseUrl(inv) ==
  inv.runner.spawned =>
    /\ Count(inv.log, "baseUrl") = 0 => inv.runner.baseURL = Str(<<>>)
    /\ Count(inv.log, "baseUrl") = 1 =>
         (inv.server = "handle" /\ inv.runner.baseURL = inv.baseURL)
\* the argument list is the one the invocation's options give when it runs
\* alone
ArgsAsAlone(inv) ==
  inv.runner.spawned =>
    inv.runner.args =
      FilesOf(inv.options0) \o ExpectedFlags(SelectSeq(inv.options0, NotReserved))
\* the result is the one the invocation's own test process gives
ResultAsAlone(inv) ==
  /\ inv.pc = "done" =>
       /\ inv.result \in {"true", "false"}
       /\ inv.result = "true" <=>
            (inv.runner.spawned /\ inv.exitCode = Num(0))
  /\ inv.result = "true" => inv.pc = "done"

(* C21 (as claimed): for every interleaving of two runE2E invocations,     *)
(* each invocation calls stop() only on the handle it obtained itself and  *)
(* exactly once, gives its Process Runner only the base URL its own server *)
(* resolved, and has the result and the argument list it would have had    *)
(* running alone.                                                          *)
C21_InvocationsIndependent ==
  parked.pc # "none" =>
    \A inv \in Invocations :
      /\ StopsOwnHandleOnce(inv)
      /\ RunnerHasOwnBaseUrl(inv)
      /\ ArgsAsAlone(inv)
      /\ ResultAsAlone(inv)

\* C21 holds when the host gives each invocation an options object of its own
C21_IndependentWithOwnOptions ==
  (parked.pc # "none" /\ ~shared) =>
    \A inv \in Invocations :
      /\ StopsOwnHandleOnce(inv)
      /\ RunnerHasOwnBaseUrl(inv)
      /\ ArgsAsAlone(inv)
      /\ ResultAsAlone(inv)

\* whatever the options object, the handle, the base URL and the result of
\* an invocation are its own
C21_OwnHandleUrlAndResult ==
  parked.pc # "none" =>
    \A inv \in Invocations :
      /\ StopsOwnHandleOnce(inv)
      /\ RunnerHasOwnBaseUrl(inv)
      /\ ResultAsAlone(inv)

\* both invocations ran to their end on their own servers and own options
C21_BothEnded ==
  /\ ~shared
  /\ \A inv \in Invocations :
       /\ inv.pc = "done"
       /\ Count(inv.log, "stop") = 1
       /\ inv.runner.baseURL = Str(sUrl)
       /\ Len(inv.runner.args) = 1
  /\ Current.result # parked.result

\* one options object for both: the invocation that spawned second lost its
\* files
C21_SecondLostFiles ==
  /\ shared
  /\ Len(FilesOf(options0)) = 2
  /\ \E inv \in Invocations : inv.runner.spawned /\ Len(inv.runner.args) = 3
  /\ \E inv \in Invocations : inv.runner.spawned /\ Len(inv.runner.args) = 1

\* an uncaught 'error' event of one invocation's child ended the host
\* process while the other invocation was still awaiting
C21_OtherCutOff ==
  /\ pc = "crashed"
  /\ parked.pc \in {"awaitSchedule", "awaitResult", "awaitExit"}

====
